---- MODULE Spec2Model ----
(***************************************************************************)
(* University Marks Manager: the PyQt Application (src/src/application.py) *)
(* driving the Mark Engine (class Semester) over the Year Store            *)
(* (DataPersistence.data), with the record lookup of                       *)
(* src/src/model/utils/get_subject_data.py.                                *)
(*                                                                         *)
(* Texts are sequences of one-character strings, so that the text          *)
(* conversions of the program (strip, split, wrap_text, float) are         *)
(* computed character by character.  Numbers are exact fractions           *)
(* <<numerator, denominator>> in lowest terms.                             *)
(***************************************************************************)
EXTENDS Integers, Sequences, FiniteSets, TLC

VARIABLES
    store,      \* DataPersistence.data: semester name -> subject code -> record
    alias,      \* which (semester, code) slots hold the same Python dict object
    disk,       \* the document last written by save_data()
    written,    \* whether the file data/<year>.json exists
    selected,   \* semester_combo.currentText()
    table,      \* the rows shown by self.table (texts as set by update_table)
    last,       \* the last user operation: its inputs, its outcome, the target before
    ops,        \* number of user operations performed so far
    semesters,  \* the keys of self.semesters: the semesters that have a Semester object
    year,       \* storage_handler.year: the year whose file disk is
    shown,      \* year_combo.currentText()
    files       \* the files data/<year>.json of the years other than year

vars == <<store, alias, disk, written, selected, table, last, ops, semesters, year, shown,
          files>>

\* Number of user operations explored in one run.
MaxOps == 3

----------------------------------------------------------------------------
(* Texts *)

\* Python's None where a text is expected (no text has a two-character element)
None == <<"<None>">>

Semesters == {"Autumn", "Spring", "Annual"}

EmptyText == <<>>

X == <<"X">>
Y == <<"Y">>
A1 == <<"A", "1">>
A2 == <<"A", "2">>
\* an assessment name with two blanks between its words
A3 == <<"Q", " ", " ", "3">>
CompName == <<"C", "S">>

NoAssignments == <<"N","o"," ","A","s","s","i","g","n","m","e","n","t","s">>
SyncedSubject == <<"S","y","n","c","e","d"," ","S","u","b","j","e","c","t">>
NoneText == <<"N","o","n","e">>

\* str.isspace() of one character, as str.strip() and str.split() use it: blank,
\* newline, tab, carriage return, form feed, vertical tab, the separators FS, GS,
\* RS, US, next line (U+0085), no-break space (U+00A0) and the ogham space mark
\* (U+1680), the last eight written as the characters themselves.  The other
\* whitespace of Unicode (U+2000..U+200A, U+2028, U+2029, U+202F, U+205F, U+3000)
\* cannot be written in a string of this module and is not in its alphabet.
IsSpace(ch) ==
    ch \in {" ", "\n", "\t", "\r", "\f", "", "", "", "", "", "", " ", " "}

\* The decimal digits (Unicode category Nd) that float() reads, one row per
\* script, each row in the order of the values 0..9: the ASCII digits and the
\* digits of the scripts named at the right.  The decimal digits of the other
\* scripts (U+0660..U+0669, U+0966..U+096F, U+FF10..U+FF19, ...) cannot be
\* written in a string of this module and are not in its alphabet.
DecimalDigits ==
    { <<"0","1","2","3","4","5","6","7","8","9">>
    , <<"۰","۱","۲","۳","۴","۵","۶","۷","۸","۹">>   \* U+06F0..U+06F9
    , <<"߀","߁","߂","߃","߄","߅","߆","߇","߈","߉">>   \* U+07C0..U+07C9
    , <<"০","১","২","৩","৪","৫","৬","৭","৮","৯">>   \* U+09E6..U+09EF
    , <<"૦","૧","૨","૩","૪","૫","૬","૭","૮","૯">>   \* U+0AE6..U+0AEF
    , <<"௦","௧","௨","௩","௪","௫","௬","௭","௮","௯">>   \* U+0BE6..U+0BEF
    , <<"೦","೧","೨","೩","೪","೫","೬","೭","೮","೯">>   \* U+0CE6..U+0CEF
    , <<"෦","෧","෨","෩","෪","෫","෬","෭","෮","෯">>   \* U+0DE6..U+0DEF
    , <<"໐","໑","໒","໓","໔","໕","໖","໗","໘","໙">>   \* U+0ED0..U+0ED9
    , <<"႐","႑","႒","႓","႔","႕","႖","႗","႘","႙">>   \* U+1090..U+1099
    , <<"០","១","២","៣","៤","៥","៦","៧","៨","៩">>   \* U+17E0..U+17E9
    , <<"᧐","᧑","᧒","᧓","᧔","᧕","᧖","᧗","᧘","᧙">>   \* U+19D0..U+19D9
    , <<"᪀","᪁","᪂","᪃","᪄","᪅","᪆","᪇","᪈","᪉">>   \* U+1A80..U+1A89
    , <<"᪐","᪑","᪒","᪓","᪔","᪕","᪖","᪗","᪘","᪙">>   \* U+1A90..U+1A99
    , <<"᮰","᮱","᮲","᮳","᮴","᮵","᮶","᮷","᮸","᮹">>   \* U+1BB0..U+1BB9
    , <<"꣐","꣑","꣒","꣓","꣔","꣕","꣖","꣗","꣘","꣙">>   \* U+A8D0..U+A8D9
    , <<"꧐","꧑","꧒","꧓","꧔","꧕","꧖","꧗","꧘","꧙">>   \* U+A9D0..U+A9D9
    , <<"꧰","꧱","꧲","꧳","꧴","꧵","꧶","꧷","꧸","꧹">>   \* U+A9F0..U+A9F9
    , <<"꯰","꯱","꯲","꯳","꯴","꯵","꯶","꯷","꯸","꯹">>   \* U+ABF0..U+ABF9
    }

IsDigit(ch) == \E row \in DecimalDigits : \E i \in 1..10 : row[i] = ch

\* the value of a decimal digit: its position in its row
DigitVal(ch) == CHOOSE d \in 0..9 : \E row \in DecimalDigits : row[d + 1] = ch

DigitChar(d) == <<"0","1","2","3","4","5","6","7","8","9">>[d + 1]

\* str.lstrip / str.rstrip / str.strip on whitespace
RECURSIVE LStrip(_)
LStrip(t) == IF t # <<>> /\ IsSpace(Head(t)) THEN LStrip(Tail(t)) ELSE t

RECURSIVE RStrip(_)
RStrip(t) ==
    IF t # <<>> /\ IsSpace(t[Len(t)]) THEN RStrip(SubSeq(t, 1, Len(t) - 1)) ELSE t

Strip(t) == RStrip(LStrip(t))

\* str.split(): the maximal runs of non-whitespace characters
RECURSIVE SplitFrom(_, _, _)
SplitFrom(t, cur, acc) ==
    IF t = <<>> THEN (IF cur = <<>> THEN acc ELSE Append(acc, cur))
    ELSE IF IsSpace(Head(t))
         THEN SplitFrom(Tail(t), <<>>, IF cur = <<>> THEN acc ELSE Append(acc, cur))
         ELSE SplitFrom(Tail(t), Append(cur, Head(t)), acc)

Split(t) == SplitFrom(t, <<>>, <<>>)

\* "\n".join(lines)
RECURSIVE JoinLines(_)
JoinLines(lines) ==
    IF lines = <<>> THEN <<>>
    ELSE IF Len(lines) = 1 THEN lines[1]
         ELSE lines[1] \o <<"\n">> \o JoinLines(Tail(lines))

\* the loop of wrap_text over the words: st = [lines, current_line]
RECURSIVE WrapWords(_, _, _)
WrapWords(words, st, max_chars) ==
    IF words = <<>> THEN st
    ELSE LET word == Head(words)
             nxt == IF Len(st.current_line) + Len(word) + 1 <= max_chars
                    THEN [lines |-> st.lines,
                          current_line |-> st.current_line \o word \o <<" ">>]
                    ELSE [lines |-> Append(st.lines, Strip(st.current_line)),
                          current_line |-> word \o <<" ">>]
         IN WrapWords(Tail(words), nxt, max_chars)

wrap_text(text, max_chars) ==
    LET st == WrapWords(Split(text), [lines |-> <<>>, current_line |-> <<>>], max_chars)
        lines == IF st.current_line # <<>>
                 THEN Append(st.lines, Strip(st.current_line))
                 ELSE st.lines
    IN JoinLines(lines)

\* column_char_limits of update_table
column_char_limits == <<25, 30, 25, 20, 15, 20, 20>>

\* str(item) of a table cell: None prints as "None", a text is itself
Str(v) == IF v = None THEN NoneText ELSE v

----------------------------------------------------------------------------
(* Numbers *)

(* A number is a fraction <<n, d>> in lowest terms with d > 0; the floats inf, *)
(* -inf and nan are <<1, 0>>, <<-1, 0>> and <<0, 0>>.  The arithmetic is      *)
(* exact: the rounding of binary floating point is not modelled.              *)

Abs(n) == IF n < 0 THEN -n ELSE n

Sign(n) == IF n < 0 THEN -1 ELSE IF n > 0 THEN 1 ELSE 0

RECURSIVE GCD(_, _)
GCD(a, b) == IF b = 0 THEN a ELSE GCD(b, a % b)

\* the quotient n / d (d > 0) as a fraction in lowest terms
Rat(n, d) == LET g == GCD(Abs(n), d) IN <<n \div g, d \div g>>

Float(n) == <<n, 1>>

Zero == Float(0)

MinusOne == Float(-1)

Hundred == Float(100)

Inf == <<1, 0>>

NaN == <<0, 0>>

Neg(a) == <<0 - a[1], a[2]>>

\* a + b, a - b, a * b of floats
Add(a, b) ==
    IF a = NaN \/ b = NaN THEN NaN
    ELSE IF a[2] = 0 /\ b[2] = 0 THEN (IF a = b THEN a ELSE NaN)
    ELSE IF a[2] = 0 THEN a
    ELSE IF b[2] = 0 THEN b
    ELSE Rat(a[1] * b[2] + b[1] * a[2], a[2] * b[2])

Sub(a, b) == Add(a, Neg(b))

Mul(a, b) ==
    IF a = NaN \/ b = NaN THEN NaN
    ELSE IF a[2] = 0 \/ b[2] = 0
         THEN (IF a[1] = 0 \/ b[1] = 0 THEN NaN ELSE <<Sign(a[1]) * Sign(b[1]), 0>>)
         ELSE Rat(a[1] * b[1], a[2] * b[2])

\* a / b for b other than 0 (a float division by 0 raises ZeroDivisionError)
Div(a, b) ==
    IF a = NaN \/ b = NaN THEN NaN
    ELSE IF a[2] = 0 /\ b[2] = 0 THEN NaN
    ELSE IF a[2] = 0 THEN <<Sign(a[1]) * Sign(b[1]), 0>>
    ELSE IF b[2] = 0 THEN Zero
    ELSE Rat(a[1] * b[2] * Sign(b[1]), a[2] * Abs(b[1]))

\* a <= b of floats: false when either is nan
Le(a, b) ==
    /\ a # NaN /\ b # NaN
    /\ \/ a = b
       \/ IF a[2] = 0 THEN a = Neg(Inf)
          ELSE IF b[2] = 0 THEN b = Inf
          ELSE a[1] * b[2] <= b[1] * a[2]

\* a > b of floats
Gt(a, b) == a # NaN /\ b # NaN /\ ~Le(a, b)

RECURSIVE DigitsOf(_)
DigitsOf(n) == IF n < 10 THEN <<DigitChar(n)>> ELSE Append(DigitsOf(n \div 10), DigitChar(n % 10))

\* the first k digits after the point of r / d (r < d), with no trailing zeros
RECURSIVE FractionDigits(_, _, _)
FractionDigits(r, d, k) ==
    IF r = 0 \/ k = 0 THEN <<>>
    ELSE <<DigitChar((r * 10) \div d)>> \o FractionDigits((r * 10) % d, d, k - 1)

\* str() of a number in a table cell: a whole number by its digits, any other by
\* its decimal expansion.  The model holds values, not their types: the ".0" that
\* str() appends to a whole float is left out.
NumText(a) ==
    IF a = NaN THEN <<"n","a","n">>
    ELSE IF a[2] = 0 THEN (IF a[1] < 0 THEN <<"-">> ELSE <<>>) \o <<"i","n","f">>
    ELSE (IF a[1] < 0 THEN <<"-">> ELSE <<>>)
         \o DigitsOf(Abs(a[1]) \div a[2])
         \o (IF a[2] = 1 THEN <<>>
             ELSE <<".">> \o FractionDigits(Abs(a[1]) % a[2], a[2], 17))

RECURSIVE DigitsVal(_, _)
DigitsVal(t, acc) == IF t = <<>> THEN acc ELSE DigitsVal(Tail(t), acc * 10 + DigitVal(Head(t)))

RECURSIVE Pow10(_)
Pow10(k) == IF k = 0 THEN 1 ELSE 10 * Pow10(k - 1)

\* str.lower() on the letters of "infinity" and "nan"
Lower(ch) ==
    CASE ch = "I" -> "i" [] ch = "N" -> "n" [] ch = "F" -> "f" [] ch = "T" -> "t"
      [] ch = "Y" -> "y" [] ch = "A" -> "a" [] OTHER -> ch

\* the whitespace that float() ignores around a text: blank, newline, tab,
\* carriage return, form feed, vertical tab, next line (U+0085), no-break space
\* (U+00A0) and the ogham space mark (U+1680), but not the separators FS..US
IsFloatSpace(ch) == ch \in {" ", "\n", "\t", "\r", "\f", "", "", " ", " "}

RECURSIVE FloatStrip(_)
FloatStrip(t) ==
    IF t # <<>> /\ IsFloatSpace(Head(t)) THEN FloatStrip(Tail(t))
    ELSE IF t # <<>> /\ IsFloatSpace(t[Len(t)]) THEN FloatStrip(SubSeq(t, 1, Len(t) - 1))
    ELSE t

\* the longest digit part  digit (["_"] digit)*  at the start of t: its digits and
\* the rest of t
RECURSIVE TakeDigits(_, _)
TakeDigits(t, digits) ==
    IF t # <<>> /\ IsDigit(Head(t)) THEN TakeDigits(Tail(t), Append(digits, Head(t)))
    ELSE IF digits # <<>> /\ Len(t) >= 2 /\ Head(t) = "_" /\ IsDigit(t[2])
         THEN TakeDigits(Tail(t), digits)
         ELSE [digits |-> digits, rest |-> t]

\* mantissa * 10^power / 10^places, or mantissa / 10^(places + power) for a
\* negative exponent
Scale(mantissa, places, eneg, power) ==
    IF eneg THEN Rat(mantissa, Pow10(places + power))
    ELSE Rat(mantissa * Pow10(power), Pow10(places))

\* the digits after "e" or "E", with their optional sign
SignedDigits(t) ==
    IF t # <<>> /\ Head(t) \in {"-", "+"}
    THEN [neg |-> Head(t) = "-"] @@ TakeDigits(Tail(t), <<>>)
    ELSE [neg |-> FALSE] @@ TakeDigits(t, <<>>)

\* the optional exponent at the start of rest
ExponentPart(rest) ==
    IF rest # <<>> /\ Head(rest) \in {"e", "E"} THEN SignedDigits(Tail(rest))
    ELSE [neg |-> FALSE, digits |-> <<"0">>, rest |-> rest]

\* the number read: it needs a digit before or after the point, a digit in the
\* exponent when there is one, and nothing left over
DecimalValue(digits, places, exponent) ==
    IF digits # <<>> /\ exponent.digits # <<>> /\ exponent.rest = <<>>
    THEN [ok |-> TRUE,
          val |-> Scale(DigitsVal(digits, 0), places, exponent.neg,
                        DigitsVal(exponent.digits, 0))]
    ELSE [ok |-> FALSE, val |-> Zero]

FractionPart(whole_digits, fraction) ==
    DecimalValue(whole_digits \o fraction.digits, Len(fraction.digits),
                 ExponentPart(fraction.rest))

\* a decimal number after its whole part: optional fraction, optional exponent
Decimal(whole) ==
    FractionPart(whole.digits,
                 IF whole.rest # <<>> /\ Head(whole.rest) = "."
                 THEN TakeDigits(Tail(whole.rest), <<>>)
                 ELSE [digits |-> <<>>, rest |-> whole.rest])

\* the text after the sign: "inf", "infinity" or "nan" in any case, or a decimal
Unsigned(word, body) ==
    IF word \in {<<"i","n","f">>, <<"i","n","f","i","n","i","t","y">>}
    THEN [ok |-> TRUE, val |-> Inf]
    ELSE IF word = <<"n","a","n">> THEN [ok |-> TRUE, val |-> NaN]
    ELSE Decimal(TakeDigits(body, <<>>))

WithSign(neg, r) == IF neg THEN [r EXCEPT !.val = Neg(r.val)] ELSE r

Signed(s, body) ==
    WithSign(s # <<>> /\ Head(s) = "-",
             Unsigned([i \in 1..Len(body) |-> Lower(body[i])], body))

\* float(value) of a text: surrounding whitespace is ignored; an optional sign is
\* followed by "inf", "infinity" or "nan" in any case, or by a decimal number with
\* an optional fraction and an optional exponent, underscores allowed between
\* digits; anything else raises ValueError (ok = FALSE).  The value is exact, so
\* the texts of the model keep mantissa and exponent within the integers of TLC.
FloatOf(value) ==
    Signed(FloatStrip(value),
           IF FloatStrip(value) # <<>> /\ Head(FloatStrip(value)) \in {"-", "+"}
           THEN Tail(FloatStrip(value)) ELSE FloatStrip(value))

\* float(value), or -1 where it raises ValueError
FloatOrMinusOne(r) == IF r.ok THEN r.val ELSE MinusOne

\* Application.__validate_float: None or "" -> 0.0, a number -> its value, else -1
validate_float(value) ==
    IF value = None \/ value = <<>> THEN Zero ELSE FloatOrMinusOne(FloatOf(value))

----------------------------------------------------------------------------
(* Records and the Year Store *)

\* the record literal of get_subject_data (lines 10-16)
NewRecord(subject_name, sync_source) ==
    [SubjectName |-> subject_name,
     Assignments |-> <<>>,
     TotalMark   |-> Zero,
     ExamMark    |-> Zero,
     ExamWeight  |-> Zero,
     SyncSource  |-> sync_source]

Entry(assessment, weighted_mark, mark_weight) ==
    [SubjectAssessment |-> assessment,
     WeightedMark      |-> weighted_mark,
     MarkWeight        |-> mark_weight]

\* a dict without key k / with key k bound to v
DictDel(d, k) == [x \in DOMAIN d \ {k} |-> d[x]]

DictPut(d, k, v) == [x \in DOMAIN d \cup {k} |-> IF x = k THEN v ELSE d[x]]

\* A world w = [store, alias, disk, written, semesters]: the in-memory document,
\* the sharing of record objects between slots, the saved document and whether
\* its file exists, and the semesters that have a Semester object.
Has(w, name, subject_code) ==
    name \in DOMAIN w.store /\ subject_code \in DOMAIN w.store[name]

GroupOf(w, name, subject_code) ==
    CHOOSE g \in w.alias : <<name, subject_code>> \in g

\* rec written through the dict object held at (name, subject_code): every slot
\* that holds the same object sees it
SetRecord(w, name, subject_code, rec) ==
    LET g == GroupOf(w, name, subject_code)
    IN [w EXCEPT !.store =
            [t \in DOMAIN w.store |->
                [d \in DOMAIN w.store[t] |->
                    IF <<t, d>> \in g THEN rec ELSE w.store[t][d]]]]

\* a fresh dict object bound at (name, subject_code)
BindNew(w, name, subject_code, rec) ==
    [w EXCEPT !.store = DictPut(w.store, name,
                            DictPut(IF name \in DOMAIN w.store THEN w.store[name] ELSE <<>>,
                                    subject_code, rec)),
              !.alias = w.alias \cup {{<<name, subject_code>>}}]

\* (name, subject_code) bound to the very object held at (from, subject_code)
BindShared(w, name, from, subject_code) ==
    LET g == GroupOf(w, from, subject_code)
    IN [w EXCEPT !.store = DictPut(w.store, name,
                               DictPut(IF name \in DOMAIN w.store THEN w.store[name]
                                       ELSE <<>>,
                                       subject_code, w.store[from][subject_code])),
                 !.alias = (w.alias \ {g}) \cup {g \cup {<<name, subject_code>>}}]

\* del data[name][subject_code]
Unbind(w, name, subject_code) ==
    LET g == GroupOf(w, name, subject_code)
        rest == g \ {<<name, subject_code>>}
    IN [w EXCEPT !.store = DictPut(w.store, name, DictDel(w.store[name], subject_code)),
                 !.alias = (w.alias \ {g}) \cup (IF rest = {} THEN {} ELSE {rest})]

\* DataPersistence.save_data(): the whole document is written
save_data(w) == [w EXCEPT !.disk = w.store, !.written = TRUE]

\* get_subject_data without its membership test: the defaults are bound anew
get_subject_data_overwrite(w, name, subject_code, subject_name, sync_source) ==
    BindNew(w, name, subject_code, NewRecord(subject_name, sync_source))

\* get_subject_data(semester, subject_code, subject_name, sync_source): the
\* record at (semester.name, subject_code), inserted with defaults when missing.
\* The result is the world after the call; the returned dict is its record at
\* (name, subject_code).
get_subject_data(w, name, subject_code, subject_name, sync_source) ==
    IF ~Has(w, name, subject_code)
    THEN BindNew(w, name, subject_code, NewRecord(subject_name, sync_source))
    ELSE w

----------------------------------------------------------------------------
(* The Mark Engine: class Semester *)

\* index of the first entry named assessment, 0 when there is none
RECURSIVE FindFrom(_, _, _)
FindFrom(assignments, assessment, i) ==
    IF i > Len(assignments) THEN 0
    ELSE IF assignments[i].SubjectAssessment = assessment THEN i
         ELSE FindFrom(assignments, assessment, i + 1)

Find(assignments, assessment) == FindFrom(assignments, assessment, 1)

RemoveAt(seq, i) == SubSeq(seq, 1, i - 1) \o SubSeq(seq, i + 1, Len(seq))

RECURSIVE SumWeighted(_)
SumWeighted(assignments) ==
    IF assignments = <<>> THEN Zero
    ELSE Add(Head(assignments).WeightedMark, SumWeighted(Tail(assignments)))

RECURSIVE SumWeights(_)
SumWeights(assignments) ==
    IF assignments = <<>> THEN Zero
    ELSE Add(Head(assignments).MarkWeight, SumWeights(Tail(assignments)))

\* Semester.add_subject(subject_code, subject_name, sync_subject): get-or-create,
\* tagged as sync source only in "Annual"; persisted
Semester_add_subject(w, name, subject_code, subject_name, sync_subject) ==
    save_data(get_subject_data(w, name, subject_code, subject_name,
                               sync_subject /\ name = "Annual"))

\* Semester.delete_subject(subject_code): raises when absent, else removes the record
Semester_delete_subject(w, name, subject_code) ==
    IF ~Has(w, name, subject_code)
    THEN [w |-> w, raised |-> TRUE]
    ELSE [w |-> Unbind(w, name, subject_code), raised |-> FALSE]

\* add_entry appending the entry whether or not the name is there already
Semester_add_entry_append(w, semester, subject_code, subject_assessment, weighted_mark, mark_weight) ==
    LET w1  == get_subject_data(w, semester, subject_code, EmptyText, FALSE)
        rec == w1.store[semester][subject_code]
        e   == Entry(subject_assessment, weighted_mark, mark_weight)
    IN [w |-> save_data(SetRecord(w1, semester, subject_code,
                                  [rec EXCEPT !.Assignments = Append(@, e)])),
        raised |-> FALSE]

\* Semester.add_entry(semester, subject_code, subject_assessment, weighted_mark,
\* mark_weight): the record is looked up with the semester's lookup; an entry of the
\* same name is replaced in place, else the entry is appended; persisted
Semester_add_entry(w, semester, subject_code, subject_assessment, weighted_mark, mark_weight) ==
    LET w1  == get_subject_data(w, semester, subject_code, EmptyText, FALSE)
        rec == w1.store[semester][subject_code]
        i   == Find(rec.Assignments, subject_assessment)
        e   == Entry(subject_assessment, weighted_mark, mark_weight)
        new == IF i > 0 THEN [rec.Assignments EXCEPT ![i] = e]
               ELSE Append(rec.Assignments, e)
    IN [w |-> save_data(SetRecord(w1, semester, subject_code,
                                  [rec EXCEPT !.Assignments = new])),
        raised |-> FALSE]

\* Semester.delete_entry(subject_code, subject_assessment): removes the first
\* matching entry and adds its mark weight onto the exam weight; raises when there
\* is no such entry; persisted
Semester_delete_entry(w, name, subject_code, subject_assessment) ==
    LET w1  == get_subject_data(w, name, subject_code, EmptyText, FALSE)
        rec == w1.store[name][subject_code]
        i   == Find(rec.Assignments, subject_assessment)
    IN IF i = 0 THEN [w |-> w1, raised |-> TRUE]
       ELSE [w |-> save_data(SetRecord(w1, name, subject_code,
                        [rec EXCEPT !.Assignments = RemoveAt(rec.Assignments, i),
                                    !.ExamWeight = Add(rec.ExamWeight,
                                                       rec.Assignments[i].MarkWeight)])),
             raised |-> FALSE]

\* results of calculate_exam_mark that are no mark
NotApplicable == <<0, -2>>
NoneResult == <<0, -1>>

\* calculate_exam_mark adding the assignments' total onto "Total Mark" at each call
Semester_calculate_exam_mark_accumulating(w, name, subject_code) ==
    LET w1  == get_subject_data(w, name, subject_code, EmptyText, FALSE)
        rec == w1.store[name][subject_code]
        assignments_total == SumWeighted(rec.Assignments)
        exam_weight == rec.ExamWeight
        exam_mark == Div(Mul(Sub(Hundred, assignments_total), Hundred), exam_weight)
    IN IF Le(exam_weight, Zero) THEN [w |-> w1, result |-> NotApplicable]
       ELSE [w |-> save_data(SetRecord(w1, name, subject_code,
                                       [rec EXCEPT !.ExamMark = exam_mark,
                                                   !.TotalMark = Add(@, assignments_total)])),
             result |-> exam_mark]

\* Semester.calculate_exam_mark(subject_code)
Semester_calculate_exam_mark(w, name, subject_code) ==
    LET w1  == get_subject_data(w, name, subject_code, EmptyText, FALSE)
        rec == w1.store[name][subject_code]
        assignments_total == SumWeighted(rec.Assignments)
        exam_weight == rec.ExamWeight
        exam_mark == Div(Mul(Sub(Hundred, assignments_total), Hundred), exam_weight)
    IN IF Le(exam_weight, Zero) THEN [w |-> w1, result |-> NotApplicable]
       ELSE [w |-> save_data(SetRecord(w1, name, subject_code,
                                       [rec EXCEPT !.ExamMark = exam_mark])),
             result |-> exam_mark]

----------------------------------------------------------------------------
(* The view *)

\* the order in which the subjects of a semester are listed
CodeOrder == <<EmptyText, X, Y>>

CodesOf(w, name) ==
    SelectSeq(CodeOrder, LAMBDA c : Has(w, name, c))

RECURSIVE Flatten(_)
Flatten(seqs) == IF seqs = <<>> THEN <<>> ELSE Head(seqs) \o Flatten(Tail(seqs))

\* the rows of one subject: one per assignment, or the placeholder row
SubjectRows(subject_code, rec) ==
    IF rec.Assignments = <<>>
    THEN << <<subject_code, rec.SubjectName, NoAssignments, EmptyText, EmptyText,
              EmptyText, NumText(rec.TotalMark)>> >>
    ELSE [i \in 1..Len(rec.Assignments) |->
            <<subject_code, rec.SubjectName, rec.Assignments[i].SubjectAssessment,
              EmptyText, NumText(rec.Assignments[i].WeightedMark),
              NumText(rec.Assignments[i].MarkWeight) \o <<"%">>,
              NumText(rec.TotalMark)>>]

\* Semester.view_data(): the rows of the semester's own records
view_data(w, name) ==
    LET codes == CodesOf(w, name)
    IN Flatten([i \in 1..Len(codes) |-> SubjectRows(codes[i], w.store[name][codes[i]])])

\* Semester.get_synced_subjects(): for "Autumn"/"Spring", the sync sources of
\* "Annual" that the semester does not hold itself
get_synced_subjects(w, name) ==
    IF name \in {"Autumn", "Spring"} /\ "Annual" \in DOMAIN w.store
    THEN LET codes == SelectSeq(CodesOf(w, "Annual"),
                        LAMBDA c : w.store["Annual"][c].SyncSource /\ ~Has(w, name, c))
         IN [i \in 1..Len(codes) |->
                [SubjectCode |-> codes[i],
                 SubjectName |-> w.store["Annual"][codes[i]].SubjectName]]
    ELSE <<>>

\* the comprehension of update_table (lines 293-296)
SyncedRows(synced_subjects) ==
    [i \in 1..Len(synced_subjects) |->
        <<synced_subjects[i].SubjectCode, synced_subjects[i].SubjectName,
          SyncedSubject, EmptyText, EmptyText, EmptyText, EmptyText>>]

\* Application.update_table(semester): the texts put into self.table
update_table(w, name) ==
    LET all_data == view_data(w, name) \o SyncedRows(get_synced_subjects(w, name))
    IN [r \in 1..Len(all_data) |->
          [col \in 1..7 |-> wrap_text(Str(all_data[r][col]), column_char_limits[col])]]

\* sub in text (Python's `in` on strings)
Contains(text, sub) ==
    \E i \in 0..(Len(text) - Len(sub)) : SubSeq(text, i + 1, i + Len(sub)) = sub

SummaryText == <<"S","u","m","m","a","r","y">>

\* the loop of update_semester (lines 278-284) over the rows of "Annual"
RECURSIVE SyncRows(_, _, _)
SyncRows(w, name, rows) ==
    IF rows = <<>> THEN w
    ELSE LET subject_code == Head(rows)[1]
             w1 == IF ~Contains(subject_code, SummaryText)
                      /\ ~Contains(subject_code, <<"=">>)
                      /\ ~Has(w, name, subject_code)
                   THEN BindShared(get_subject_data(w, "Annual", subject_code, EmptyText, FALSE),
                                   name, "Annual", subject_code)
                   ELSE w
         IN SyncRows(w1, name, Tail(rows))

\* self.semesters.get(name, "Unknown") gave the text "Unknown": the first use of
\* it as a Semester raises an AttributeError (a KeyError in calculate_exam_mark)
\* that no handler catches, which ends the program
Unknown(w, name) == name \notin w.semesters

\* a row of "Annual" that the loop of update_semester looks up in semester.data
\* (lines 281-282)
LooksUp(rows) ==
    \E r \in 1..Len(rows) :
        ~Contains(rows[r][1], SummaryText) /\ ~Contains(rows[r][1], <<"=">>)

\* Application.update_semester(): [w, table, crashed] after the call.  With the
\* text "Unknown" for the semester the exception is raised by semester.data in
\* the loop (line 282), or else by semester.view_data() in update_table (line
\* 293), after line 289 has emptied the table.
update_semester(w, name, tbl) ==
    IF name \in {"Autumn", "Spring"}
    THEN IF Unknown(w, name)
         THEN [w |-> w,
               table |-> IF ~Unknown(w, "Annual") /\ LooksUp(view_data(w, "Annual"))
                         THEN tbl ELSE <<>>,
               crashed |-> TRUE]
         ELSE LET w1 == IF ~Unknown(w, "Annual") /\ "Annual" \in DOMAIN w.store
                        THEN SyncRows(w, name, view_data(w, "Annual"))
                        ELSE w
              IN [w |-> w1, table |-> update_table(w1, name), crashed |-> FALSE]
    ELSE [w |-> w, table |-> tbl, crashed |-> FALSE]

\* DataPersistence(year): the file loaded, every record an object of its own
Load(doc) ==
    [store |-> doc,
     alias |-> UNION {{{<<name, c>>} : c \in DOMAIN doc[name]} : name \in DOMAIN doc},
     disk  |-> doc,
     written |-> TRUE,
     semesters |-> Semesters]

Empty == [c \in {} |-> 0]

\* SemesterSelectionDialog.get_selected_semesters(), and the default of
\* update_year when no box is checked
get_selected_semesters(chosen) == IF chosen = {} THEN Semesters ELSE chosen

\* update_year creating all three semesters whatever was checked in the dialog
update_year_all_semesters(w, name, tbl, file, accepted, chosen) ==
    IF file.exists
    THEN LET out == update_semester(Load(file.doc), name, tbl)
         IN [w |-> out.w, table |-> out.table,
             status |-> IF out.crashed THEN "crashed" ELSE "loaded"]
    ELSE IF accepted
         THEN LET doc == [semester_name \in Semesters |-> Empty]
                  out == update_semester(Load(doc), name, tbl)
              IN [w |-> out.w, table |-> out.table,
                  status |-> IF out.crashed THEN "crashed" ELSE "created"]
         ELSE [w |-> w, table |-> tbl, status |-> "cancelled"]

\* Application.update_year() on the year whose file is `file`: [w, table, status].
\* accepted and chosen are the answer to the semester selection dialog, asked only
\* when the year has no file.
update_year(w, name, tbl, file, accepted, chosen) ==
    IF file.exists
    THEN LET out == update_semester(Load(file.doc), name, tbl)
         IN [w |-> out.w, table |-> out.table,
             status |-> IF out.crashed THEN "crashed" ELSE "loaded"]
    ELSE IF accepted
         THEN LET selected_semesters == get_selected_semesters(chosen)
                  doc == [semester_name \in selected_semesters |-> Empty]
                  out == update_semester(
                             [Load(doc) EXCEPT !.semesters = selected_semesters],
                             name, tbl)
              IN [w |-> out.w, table |-> out.table,
                  status |-> IF out.crashed THEN "crashed" ELSE "created"]
         ELSE [w |-> w, table |-> tbl, status |-> "cancelled"]

----------------------------------------------------------------------------
(* The Application's handlers.  Each yields [w, table, status, value]: the     *)
(* world and the table after the handler, the outcome shown to the user, and  *)
(* the value computed (Zero when the handler computes none).                  *)

Outcome(w, tbl, status, value) ==
    [w |-> w, table |-> tbl, status |-> status, value |-> value]

\* AddSubjectDialog.apply: entry.get().strip() or None
apply(text) == IF Strip(text) = <<>> THEN None ELSE Strip(text)

\* `not subject_code`
Falsy(text) == text = None \/ text = <<>>

\* add_subject without the test for an empty subject code
add_subject_unchecked(w, name, tbl, accepted, code_text, name_text) ==
    IF ~accepted THEN Outcome(w, tbl, "cancelled", Zero)
    ELSE LET w1 == Semester_add_subject(w, name, apply(code_text), apply(name_text), TRUE)
         IN Outcome(w1, update_table(w1, name), "ok", Zero)

\* Application.add_subject
add_subject(w, name, tbl, accepted, code_text, name_text) ==
    IF ~accepted THEN Outcome(w, tbl, "cancelled", Zero)
    ELSE LET subject_code == apply(code_text)
             subject_name == apply(name_text)
         IN IF Falsy(subject_code) THEN Outcome(w, tbl, "invalid", Zero)
            ELSE IF Unknown(w, name) THEN Outcome(w, tbl, "crashed", Zero)
            ELSE LET w1 == Semester_add_subject(w, name, subject_code, subject_name, TRUE)
                 IN Outcome(w1, update_table(w1, name), "ok", Zero)

\* Application.delete_subject; row = 0 stands for an empty selection
delete_subject(w, name, tbl, row, confirm) ==
    IF row = 0 THEN Outcome(w, tbl, "no_selection", Zero)
    ELSE LET subject_code == tbl[row][1]
         IN IF ~confirm THEN Outcome(w, tbl, "cancelled", Zero)
            ELSE IF Unknown(w, name) THEN Outcome(w, tbl, "crashed", Zero)
            ELSE LET r == Semester_delete_subject(w, name, subject_code)
                 IN IF r.raised THEN Outcome(r.w, tbl, "failed", Zero)
                    ELSE LET w1 == save_data(r.w)
                         IN Outcome(w1, update_table(w1, name), "ok", Zero)

\* add_entry handing the two numbers to the semester in the wrong order
add_entry_swapped(w, name, tbl, subject_code, assessment, weighted_text, weight_text) ==
    LET weighted_mark == validate_float(weighted_text)
        mark_weight == validate_float(weight_text)
    IN IF weighted_mark = MinusOne \/ mark_weight = MinusOne THEN Outcome(w, tbl, "invalid", Zero)
       ELSE LET r == Semester_add_entry(w, name, subject_code, assessment,
                                        mark_weight, weighted_mark)
                w1 == save_data(r.w)
            IN Outcome(w1, update_table(w1, name), "ok", Zero)

\* Application.add_entry
add_entry(w, name, tbl, subject_code, assessment, weighted_text, weight_text) ==
    LET weighted_mark == validate_float(weighted_text)
        mark_weight == validate_float(weight_text)
    IN IF weighted_mark = MinusOne \/ mark_weight = MinusOne THEN Outcome(w, tbl, "invalid", Zero)
       ELSE IF Unknown(w, name) THEN Outcome(w, tbl, "crashed", Zero)
       ELSE LET r == Semester_add_entry(w, name, subject_code, assessment,
                                        weighted_mark, mark_weight)
            IN IF r.raised THEN Outcome(r.w, tbl, "failed", Zero)
               ELSE LET w1 == save_data(r.w)
                    IN Outcome(w1, update_table(w1, name), "ok", Zero)

\* delete_entry reading the assessment from the subject-name column
delete_entry_wrong_column(w, name, tbl, row) ==
    IF row = 0 THEN Outcome(w, tbl, "no_selection", Zero)
    ELSE LET r == Semester_delete_entry(w, name, tbl[row][1], tbl[row][2])
             w1 == save_data(r.w)
         IN Outcome(w1, update_table(w1, name),
                    IF r.raised THEN "failed" ELSE "ok", Zero)

\* Application.delete_entry with the one row the table lets the user select
delete_entry(w, name, tbl, row) ==
    IF row = 0 THEN Outcome(w, tbl, "no_selection", Zero)
    ELSE IF Unknown(w, name) THEN Outcome(w, tbl, "crashed", Zero)
    ELSE LET subject_code == tbl[row][1]
             assessment == tbl[row][3]
             r == Semester_delete_entry(w, name, subject_code, assessment)
             w1 == save_data(r.w)
         IN Outcome(w1, update_table(w1, name),
                    IF r.raised THEN "failed" ELSE "ok", Zero)

\* the selected rows in the order the loop takes them: sorted(..., reverse=True)
RECURSIVE Descending(_)
Descending(rows) ==
    IF rows = {} THEN <<>>
    ELSE LET top == CHOOSE r \in rows : \A q \in rows : q <= r
         IN <<top>> \o Descending(rows \ {top})

\* the loop with one try around all of it: the first failure ends the loop
RECURSIVE delete_rows_abort(_, _, _, _)
delete_rows_abort(w, name, tbl, rows) ==
    IF rows = <<>> THEN [w |-> w, failed |-> {}]
    ELSE LET row == Head(rows)
             r == Semester_delete_entry(w, name, tbl[row][1], tbl[row][3])
         IN IF r.raised THEN [w |-> r.w, failed |-> {row}]
            ELSE delete_rows_abort(r.w, name, tbl, Tail(rows))

\* the loop of Application.delete_entry over the selected rows, each row in a try
\* of its own: the world after the loop and the rows whose deletion raised
RECURSIVE delete_rows(_, _, _, _)
delete_rows(w, name, tbl, rows) ==
    IF rows = <<>> THEN [w |-> w, failed |-> {}]
    ELSE LET row == Head(rows)
             r == Semester_delete_entry(w, name, tbl[row][1], tbl[row][3])
             rest == delete_rows(r.w, name, tbl, Tail(rows))
         IN [w |-> rest.w,
             failed |-> rest.failed \cup (IF r.raised THEN {row} ELSE {})]

\* Application.delete_entry as written, for any set of selected rows
delete_entries(w, name, tbl, rows) ==
    IF rows = {} THEN Outcome(w, tbl, "no_selection", Zero) @@ [failed |-> {}]
    ELSE IF Unknown(w, name) THEN Outcome(w, tbl, "crashed", Zero) @@ [failed |-> {}]
    ELSE LET r == delete_rows(w, name, tbl, Descending(rows))
             w1 == save_data(r.w)
         IN Outcome(w1, update_table(w1, name),
                    IF r.failed = {} THEN "ok"
                    ELSE IF r.failed = rows THEN "failed" ELSE "partial",
                    Zero) @@ [failed |-> r.failed]

\* calculate_exam_mark testing `not exam_mark` in place of `exam_mark is None`:
\* every result that is no mark is reported as a missing subject
calculate_exam_mark_falsy_test(w, name, tbl, subject_code) ==
    IF Falsy(subject_code) THEN Outcome(w, tbl, "invalid", Zero)
    ELSE LET r == Semester_calculate_exam_mark(w, name, subject_code)
         IN Outcome(r.w, update_table(r.w, name),
                    IF r.result \in {NoneResult, NotApplicable, Zero} THEN "not_found"
                    ELSE "ok",
                    r.result)

\* Application.calculate_exam_mark
calculate_exam_mark(w, name, tbl, subject_code) ==
    IF Falsy(subject_code) THEN Outcome(w, tbl, "invalid", Zero)
    ELSE IF Unknown(w, name) THEN Outcome(w, tbl, "crashed", Zero)
    ELSE LET r == Semester_calculate_exam_mark(w, name, subject_code)
         IN Outcome(r.w, update_table(r.w, name),
                    IF r.result = NoneResult THEN "not_found"
                    ELSE IF r.result = NotApplicable THEN "not_applicable" ELSE "ok",
                    r.result)

\* Application.manage_total_mark: ok = the prompt was confirmed with total_mark
manage_total_mark(w, name, tbl, row, ok, total_mark) ==
    IF row = 0 THEN Outcome(w, tbl, "no_selection", Zero)
    ELSE IF Unknown(w, name) THEN Outcome(w, tbl, "crashed", Zero)
    ELSE LET subject_code == tbl[row][1]
             value == IF ok THEN total_mark ELSE Zero
         IN IF ~Has(w, name, subject_code) THEN Outcome(w, tbl, "not_found", Zero)
            ELSE LET rec == w.store[name][subject_code]
                     w1 == save_data(SetRecord(w, name, subject_code,
                                               [rec EXCEPT !.TotalMark = value]))
                 IN Outcome(w1, update_table(w1, name),
                            IF ok THEN "ok" ELSE "cleared", Zero)

----------------------------------------------------------------------------
(* Inputs *)

CodeInputs == {X}
\* a code after a tab, and a no-break space (U+00A0) alone
CodeTexts == {<<"\t", "X">>, <<" ">>}
NameTexts == {CompName, EmptyText}
AssessmentInputs == {A1, A3}
WeightedTexts == {<<"4",".","5">>, <<"a">>, <<"-","1">>}
WeightTexts == {<<"2","e","1">>, <<"-","7","0">>, EmptyText}
TotalInputs == {Float(50)}

\* the Assignments of the subject "COMP101" of the worked scenario
ScenarioRecord ==
    [SubjectName |-> CompName,
     Assignments |-> <<Entry(A1, Float(20), Float(20)), Entry(A2, Float(25), Float(30))>>,
     TotalMark   |-> Zero,
     ExamMark    |-> Zero,
     ExamWeight  |-> Float(50),
     SyncSource  |-> FALSE]

\* the year files the program may start from: an empty year; the scenario subject
\* in "Autumn"; an "Annual" semester holding the scenario subject as a sync source
\* (its exam mark already calculated and saved) and a subject that is none
Files ==
    { [Autumn |-> Empty, Spring |-> Empty, Annual |-> Empty],
      [Autumn |-> (X :> ScenarioRecord), Spring |-> Empty, Annual |-> Empty],
      [Autumn |-> Empty, Spring |-> Empty,
       Annual |-> (X :> [ScenarioRecord EXCEPT !.SyncSource = TRUE,
                                               !.ExamMark = <<110, 1>>])
                  @@ (Y :> NewRecord(CompName, FALSE))] }

World ==
    [store |-> store, alias |-> alias, disk |-> disk, written |-> written,
     semesters |-> semesters]

\* the years of the year combo box: the current year, shown at the start, and
\* another year
Years == {"Y0", "Y1"}

NoFile == [exists |-> FALSE, doc |-> <<>>]

\* data/<y>.json as it is now
FileOf(y) == IF y = year THEN [exists |-> written, doc |-> disk] ELSE files[y]

NoTarget == NewRecord(None, FALSE)

\* the record of an operation: what was asked, what came of it, and the target
\* subject as it was before
OpTexts(op, subject_code, assessment, text1, text2, n1, n2, out) ==
    [op |-> op, sem |-> selected, code |-> subject_code, assessment |-> assessment,
     text1 |-> text1, text2 |-> text2,
     n1 |-> n1, n2 |-> n2, status |-> out.status, value |-> out.value,
     codes |-> IF selected \in DOMAIN store THEN DOMAIN store[selected] ELSE {},
     existed |-> Has(World, selected, subject_code),
     pre |-> IF Has(World, selected, subject_code)
             THEN store[selected][subject_code] ELSE NoTarget,
     rows |-> {}, failed |-> {}, chosen |-> {}, file_existed |-> TRUE,
     accepted |-> FALSE]

\* the record of a selection in a combo box
Note(op, name, status, codes) ==
    [op |-> op, sem |-> name, code |-> EmptyText, assessment |-> EmptyText,
     text1 |-> EmptyText, text2 |-> EmptyText, n1 |-> Zero, n2 |-> Zero,
     status |-> status, value |-> Zero, codes |-> codes, existed |-> FALSE,
     pre |-> NoTarget, rows |-> {}, failed |-> {}, chosen |-> {},
     file_existed |-> TRUE, accepted |-> FALSE]

\* the program is running and the run has operations left
Ready == last.status # "crashed" /\ ops < MaxOps

Op(op, subject_code, assessment, n1, n2, out) ==
    OpTexts(op, subject_code, assessment, EmptyText, EmptyText, n1, n2, out)

Commit(out, op) ==
    /\ store' = out.w.store
    /\ alias' = out.w.alias
    /\ disk' = out.w.disk
    /\ written' = out.w.written
    /\ table' = out.table
    /\ last' = op
    /\ ops' = ops + 1
    /\ UNCHANGED <<semesters, year, shown, files>>

RowCode(row) == IF row = 0 THEN EmptyText ELSE table[row][1]

RowAssessment(row) == IF row = 0 THEN EmptyText ELSE table[row][3]

----------------------------------------------------------------------------
(* The state machine *)

\* the answers to the semester selection dialog at a start without a year file:
\* no box checked, "Autumn" alone, and a choice without "Autumn"
StartChoices == {{}, {"Autumn"}, {"Spring", "Annual"}}

\* how the program may be started: the current year's file exists, or it does not
\* and the dialog shown at the start is confirmed or cancelled
Starts ==
    {[file |-> [exists |-> TRUE, doc |-> doc], accepted |-> FALSE, chosen |-> {}] :
        doc \in Files}
    \cup {[file |-> NoFile, accepted |-> TRUE, chosen |-> chosen] :
              chosen \in StartChoices}
    \cup {[file |-> NoFile, accepted |-> FALSE, chosen |-> {}]}

\* the storage handler handed to the constructor when the year has no file: an
\* empty document, with Semester objects for the three names (lines 30-33)
Handed == [Load([semester_name \in {} |-> Empty]) EXCEPT !.written = FALSE]

\* Application.__init__: init_ui -> update_year -> update_semester with "Autumn",
\* the first item of the combo box, selected.  A choice without "Autumn" ends
\* the program in the constructor; after a cancelled dialog the program runs on
\* what the constructor was handed, no file written.
Init ==
    \E start \in Starts :
        LET out == update_year(Handed, "Autumn", <<>>, start.file, start.accepted,
                               start.chosen)
        IN /\ store = out.w.store
           /\ alias = out.w.alias
           /\ disk = out.w.disk
           /\ written = out.w.written
           /\ selected = "Autumn"
           /\ table = out.table
           /\ last = [Note("init", "Autumn",
                           IF out.status = "crashed" THEN "crashed" ELSE "ok", {})
                         EXCEPT !.file_existed = start.file.exists,
                                !.accepted = start.accepted,
                                !.chosen = start.chosen]
           /\ ops = 0
           /\ semesters = out.w.semesters
           /\ year = "Y0"
           /\ shown = "Y0"
           /\ files = [y \in Years |-> NoFile]

SelectSemester ==
    \E name \in Semesters \ {selected} :
        /\ Ready
        /\ LET out == update_semester(World, name, table)
           IN /\ store' = out.w.store
              /\ alias' = out.w.alias
              /\ disk' = out.w.disk
              /\ written' = out.w.written
              /\ table' = out.table
              /\ last' = Note("select", name, IF out.crashed THEN "crashed" ELSE "ok",
                              IF name \in DOMAIN store THEN DOMAIN store[name] ELSE {})
        /\ selected' = name
        /\ ops' = ops + 1
        /\ UNCHANGED <<semesters, year, shown, files>>

AddSubject ==
    \E accepted \in BOOLEAN, code_text \in CodeTexts, name_text \in NameTexts :
        /\ Ready
        /\ LET out == add_subject(World, selected, table, accepted, code_text, name_text)
           \* the subject name handed over is recorded in the assessment field
           IN Commit(out, Op("add_subject", apply(code_text), apply(name_text), Zero, Zero, out))
        /\ UNCHANGED selected

DeleteSubject ==
    \E row \in 0..Len(table), confirm \in BOOLEAN :
        /\ Ready
        /\ LET out == delete_subject(World, selected, table, row, confirm)
           IN Commit(out, Op("delete_subject", RowCode(row), EmptyText, Zero, Zero, out))
        /\ UNCHANGED selected

AddEntry ==
    \E subject_code \in CodeInputs, assessment \in AssessmentInputs,
       weighted_text \in WeightedTexts, weight_text \in WeightTexts :
        /\ Ready
        /\ LET out == add_entry(World, selected, table, subject_code, assessment,
                                weighted_text, weight_text)
           IN Commit(out, OpTexts("add_entry", subject_code, assessment,
                                  weighted_text, weight_text,
                                  validate_float(weighted_text),
                                  validate_float(weight_text), out))
        /\ UNCHANGED selected

DeleteEntry ==
    \E row \in 0..Len(table) :
        /\ Ready
        /\ LET out == delete_entry(World, selected, table, row)
           IN Commit(out, Op("delete_entry", RowCode(row), RowAssessment(row), Zero, Zero, out))
        /\ UNCHANGED selected

CalculateExamMark ==
    \E subject_code \in CodeInputs \cup {EmptyText} :
        /\ Ready
        /\ LET out == calculate_exam_mark(World, selected, table, subject_code)
           IN Commit(out, Op("calculate_exam_mark", subject_code, EmptyText, Zero, Zero, out))
        /\ UNCHANGED selected

ManageTotalMark ==
    \E row \in 0..Len(table), ok \in BOOLEAN, total_mark \in TotalInputs :
        /\ Ready
        /\ LET out == manage_total_mark(World, selected, table, row, ok, total_mark)
           IN Commit(out, Op("manage_total_mark", RowCode(row), EmptyText, total_mark, Zero, out))
        /\ UNCHANGED selected

Next ==
    \/ SelectSemester
    \/ AddSubject
    \/ DeleteSubject
    \/ AddEntry
    \/ DeleteEntry
    \/ CalculateExamMark
    \/ ManageTotalMark

Spec == Init /\ [][Next]_vars

\* Application.delete_entry with several rows selected. The table is set to
\* SingleSelection (application.py:49, 139), so the user interface as configured
\* hands the handler one row; this action gives the handler's loop the selections
\* of two or more rows it is written for.
DeleteEntries ==
    \E rows \in SUBSET (1..Len(table)) :
        /\ Ready
        /\ Cardinality(rows) > 1
        /\ LET out == delete_entries(World, selected, table, rows)
           IN Commit(out, [Op("delete_entries", EmptyText, EmptyText, Zero, Zero, out)
                              EXCEPT !.rows = rows, !.failed = out.failed])
        /\ UNCHANGED selected

\* Another year is picked in the year combo box: Application.update_year.  The
\* record says whether the year's file existed and how the dialog was answered.
SelectYear ==
    \E y \in Years \ {shown}, accepted \in BOOLEAN, chosen \in SUBSET Semesters :
        /\ Ready
        /\ FileOf(y).exists => (accepted /\ chosen = {})
        /\ ~accepted => chosen = {}
        /\ LET out == update_year(World, selected, table, FileOf(y), accepted, chosen)
           IN /\ store' = out.w.store
              /\ alias' = out.w.alias
              /\ disk' = out.w.disk
              /\ written' = out.w.written
              /\ semesters' = out.w.semesters
              /\ table' = out.table
              /\ year' = IF out.status = "cancelled" THEN year ELSE y
              /\ files' = IF out.status = "cancelled" \/ y = year THEN files
                          ELSE [files EXCEPT ![year] = FileOf(year)]
              /\ last' = [Note("select_year", selected, out.status, {})
                             EXCEPT !.file_existed = FileOf(y).exists,
                                    !.accepted = accepted,
                                    !.chosen = chosen]
        /\ shown' = y
        /\ ops' = ops + 1
        /\ UNCHANGED selected

NextYears == Next \/ SelectYear

SpecYears == Init /\ [][NextYears]_vars

NextBatch == Next \/ DeleteEntries

SpecBatch == Init /\ [][NextBatch]_vars

----------------------------------------------------------------------------
(* Properties *)

HasTarget == Has(World, last.sem, last.code)

\* the subject the last operation was aimed at, as it is now
Target == store[last.sem][last.code]

ValidNumbers == last.n1 # MinusOne /\ last.n2 # MinusOne

\* C1: for an existing subject whose stored exam weight is greater than 0,
\* calculate exam mark returns (100 - sum of the weighted marks) * 100 / exam weight
\* and stores that value as the subject's exam mark.
C1_ExamMarkFormula ==
    (last.op = "calculate_exam_mark" /\ last.existed /\ Gt(last.pre.ExamWeight, Zero)) =>
        /\ last.status = "ok"
        /\ last.value[2] > 0
        /\ Mul(last.value, last.pre.ExamWeight) =
               Mul(Sub(Hundred, SumWeighted(last.pre.Assignments)), Hundred)
        /\ HasTarget
        /\ Target.ExamMark = last.value

\* weighted marks 20 and 25 with exam weight 50 give 110, stored over the former 0
C1_Witness ==
    /\ last.op = "calculate_exam_mark"
    /\ last.existed
    /\ last.pre.ExamWeight = Float(50)
    /\ Len(last.pre.Assignments) = 2
    /\ last.pre.Assignments[1].WeightedMark = Float(20)
    /\ last.pre.Assignments[2].WeightedMark = Float(25)
    /\ last.pre.ExamMark = Zero
    /\ last.value = <<110, 1>>
    /\ Target.ExamMark = <<110, 1>>

\* C2: when the stored exam weight of an existing subject is 0 or less, calculate
\* exam mark returns the "not applicable" sentinel and the stored exam mark stays
\* as it was.
C2_NotApplicable ==
    (last.op = "calculate_exam_mark" /\ last.existed /\ Le(last.pre.ExamWeight, Zero)) =>
        /\ last.status = "not_applicable"
        /\ last.value = NotApplicable
        /\ HasTarget
        /\ Target.ExamMark = last.pre.ExamMark

\* a negative exam weight, with an exam mark calculated earlier that is kept
C2_Witness ==
    /\ last.op = "calculate_exam_mark"
    /\ last.existed
    /\ Gt(Zero, last.pre.ExamWeight)
    /\ last.pre.ExamMark = <<110, 1>>
    /\ last.value = NotApplicable
    /\ Target.ExamMark = <<110, 1>>

\* C3: deleting an existing assessment entry removes that entry from the list (the
\* others keep their order) and raises the stored exam weight by exactly the
\* deleted entry's mark weight.
C3_DeleteEntry ==
    (last.op = "delete_entry" /\ last.existed
        /\ Find(last.pre.Assignments, last.assessment) > 0) =>
        LET i == Find(last.pre.Assignments, last.assessment)
            old == last.pre.Assignments
        IN /\ last.status = "ok"
           /\ HasTarget
           /\ Len(Target.Assignments) = Len(old) - 1
           /\ \A j \in 1..Len(Target.Assignments) :
                 Target.Assignments[j] = IF j < i THEN old[j] ELSE old[j + 1]
           /\ Target.ExamWeight = Add(last.pre.ExamWeight, old[i].MarkWeight)

\* the entry of mark weight 20 deleted at exam weight 50 leaves exam weight 70
C3_Witness ==
    /\ last.op = "delete_entry"
    /\ last.status = "ok"
    /\ last.pre.ExamWeight = Float(50)
    /\ last.pre.Assignments[Find(last.pre.Assignments, last.assessment)].MarkWeight
           = Float(20)
    /\ Len(last.pre.Assignments) = 2
    /\ Len(Target.Assignments) = 1
    /\ Target.ExamWeight = Float(70)

\* C4: adding an entry whose name is in the list replaces its weighted mark and
\* mark weight at the same position, the length and every other entry unchanged;
\* adding an entry with a new name appends exactly one entry at the end.
C4_ReplaceOrAppend ==
    (last.op = "add_entry" /\ last.existed /\ ValidNumbers) =>
        LET i == Find(last.pre.Assignments, last.assessment)
            old == last.pre.Assignments
            e == Entry(last.assessment, last.n1, last.n2)
        IN /\ HasTarget
           /\ Len(Target.Assignments) = IF i > 0 THEN Len(old) ELSE Len(old) + 1
           /\ \A j \in 1..Len(old) : j # i => Target.Assignments[j] = old[j]
           /\ Target.Assignments[IF i > 0 THEN i ELSE Len(old) + 1] = e

\* the first of two entries replaced with new numbers, the second untouched
C4_Witness ==
    /\ last.op = "add_entry"
    /\ last.existed
    /\ Len(last.pre.Assignments) = 2
    /\ Find(last.pre.Assignments, last.assessment) = 1
    /\ last.pre.Assignments[1].WeightedMark = Float(20)
    /\ Target.Assignments[1].WeightedMark = <<9, 2>>
    /\ Len(Target.Assignments) = 2
    /\ Target.Assignments[2] = last.pre.Assignments[2]

\* C5: adding an entry, new or replacing, never changes the stored exam weight of
\* the subject, so an entry deleted and added back leaves the exam weight higher
\* by its mark weight.
C5_AddKeepsExamWeight ==
    (last.op = "add_entry" /\ last.existed /\ ValidNumbers) =>
        HasTarget /\ Target.ExamWeight = last.pre.ExamWeight

\* "A1" (mark weight 20) added back after its deletion raised the exam weight of
\* the scenario subject from 50 to 70: the weight stays 70
C5_Witness ==
    /\ last.op = "add_entry"
    /\ last.status = "ok"
    /\ last.assessment = A1
    /\ last.n2 = Float(20)
    /\ Find(last.pre.Assignments, A1) = 0
    /\ Len(last.pre.Assignments) = 1
    /\ last.pre.ExamWeight = Float(70)
    /\ Find(Target.Assignments, A1) = 2
    /\ Target.ExamWeight = Float(70)

\* C6: no record in the stored subject map of "Autumn" or "Spring" is the record
\* of an "Annual" subject: Annual subjects are merged into the view only.
C6_NoAnnualCopy ==
    \A name \in {"Autumn", "Spring"} \cap DOMAIN store : \A c \in DOMAIN store[name] :
        \A g \in alias : ~({<<name, c>>, <<"Annual", c>>} \subseteq g)

\* the view of a semester as update_table would show it now
\* the semester holds a record of its own under the code: one that is not the
\* record object of "Annual"
OwnRecord(name, c) ==
    /\ Has(World, name, c)
    /\ \A g \in alias : ~({<<name, c>>, <<"Annual", c>>} \subseteq g)

\* C7: while "Autumn" or "Spring" is shown, every "Annual" subject of which the
\* semester has no record of its own has a "Synced Subject" row in the table when
\* it is flagged as sync source, and no row at all when it is not.
C7_SyncedRows ==
    (/\ selected \in {"Autumn", "Spring"} \cap DOMAIN store
     /\ "Annual" \in DOMAIN store
     /\ last.status # "crashed")
    => \A c \in DOMAIN store["Annual"] :
          ~OwnRecord(selected, c) =>
             IF store["Annual"][c].SyncSource
             THEN \E r \in 1..Len(table) :
                     table[r][1] = c /\ table[r][3] = SyncedSubject
             ELSE \A r \in 1..Len(table) : table[r][1] # c

\* C8: adding a subject whose code exists in the semester leaves the record as it
\* was, whatever name is passed, and creates no other record; adding an absent code
\* creates a record with the given name, no assignments, total mark 0, exam mark 0,
\* exam weight 0 and the sync flag handed to the lookup (set in "Annual" only).
C8_AddSubjectGetOrCreate ==
    (last.op = "add_subject" /\ last.status = "ok") =>
        /\ HasTarget
        /\ last.existed => (Target = last.pre /\ DOMAIN store[last.sem] = last.codes)
        /\ ~last.existed =>
              /\ DOMAIN store[last.sem] = last.codes \cup {last.code}
              /\ Target.SubjectName = last.assessment
              /\ Target.Assignments = <<>>
              /\ Target.TotalMark = Zero
              /\ Target.ExamMark = Zero
              /\ Target.ExamWeight = Zero
              /\ Target.SyncSource = (last.sem = "Annual")

\* the scenario subject, added again under the same code with another name, keeps
\* its name and its two entries
C8_Witness ==
    /\ last.op = "add_subject"
    /\ last.status = "ok"
    /\ last.existed
    /\ last.assessment = None
    /\ Target.SubjectName = CompName
    /\ Len(last.pre.Assignments) = 2
    /\ last.pre.ExamWeight = Float(50)
    /\ Target = last.pre

\* C9: add entry and calculate exam mark aimed at a subject code the selected
\* semester does not hold end with a not-found result and create no record.
C9_NotFound ==
    (last.op \in {"add_entry", "calculate_exam_mark"} /\ ~last.existed
        /\ ValidNumbers /\ ~Falsy(last.code)) =>
        /\ last.status \in {"not_found", "failed"}
        /\ ~HasTarget

\* C10: add subject with an empty subject code is refused as invalid and changes
\* neither the store nor the saved document.
C10_EmptyCodeRefused ==
    [][(last'.op = "add_subject" /\ last'.status # "cancelled" /\ Falsy(last'.code)) =>
          (last'.status = "invalid" /\ UNCHANGED <<store, alias, disk>>)]_vars

\* a subject code of blanks only, refused
C10_Witness ==
    /\ last.op = "add_subject"
    /\ last.status = "invalid"
    /\ last.code = None

\* the number a text denotes: 0 for the empty text, else float(text)
IsNumber(text) == text = <<>> \/ FloatOf(text).ok

NumberOf(text) == IF text = <<>> THEN Zero ELSE FloatOf(text).val

\* C11: add entry turns the two texts into numbers: an empty text is 0, every
\* text that is a valid number reaches the engine with its value, and a text that
\* is no number ends the operation as invalid.
C11_Coercion ==
    last.op = "add_entry" =>
        IF IsNumber(last.text1) /\ IsNumber(last.text2)
        THEN /\ last.status = "ok"
             /\ HasTarget
             /\ LET i == Find(Target.Assignments, last.assessment)
                IN /\ i > 0
                   /\ Target.Assignments[i].WeightedMark = NumberOf(last.text1)
                   /\ Target.Assignments[i].MarkWeight = NumberOf(last.text2)
        ELSE last.status = "invalid"

\* C12: delete subject on a code the selected semester lacks fails and changes
\* nothing; on a code it holds, exactly that record leaves the store (and the saved
\* document), every other record of every semester staying as it was.
C12_DeleteSubject ==
    [][(last'.op = "delete_subject" /\ last'.status \notin {"no_selection", "cancelled"})
        => IF last'.existed
           THEN /\ last'.status = "ok"
                /\ store' = [store EXCEPT ![selected] = DictDel(@, last'.code)]
                /\ disk' = store'
           ELSE /\ last'.status = "failed"
                /\ UNCHANGED <<store, alias, disk>>]_vars

\* C13: set total mark on a subject of the selected semester sets its total mark
\* to the given value (to 0 when the prompt is cancelled) and changes nothing else
\* in the store; on a code the semester lacks it fails and the store is unchanged.
C13_TotalMarkOnly ==
    [][(last'.op = "manage_total_mark" /\ last'.status # "no_selection")
        => IF last'.existed
           THEN /\ last'.status \in {"ok", "cleared"}
                /\ store' = [store EXCEPT ![selected][last'.code].TotalMark =
                                 IF last'.status = "ok" THEN last'.n1 ELSE Zero]
           ELSE /\ last'.status = "not_found"
                /\ UNCHANGED <<store, alias, disk>>]_vars

\* C14: calculate exam mark called again on the same subject, nothing done in
\* between, gives the result of the first call and leaves the store and the saved
\* document exactly as the first call left them.
C14_Idempotent ==
    [][(/\ last.op = "calculate_exam_mark" /\ last.status # "invalid"
        /\ last'.op = "calculate_exam_mark"
        /\ last'.sem = last.sem /\ last'.code = last.code)
        => /\ last'.value = last.value
           /\ last'.status = last.status
           /\ UNCHANGED <<store, alias, disk>>]_vars

\* the second call on the scenario subject: the stored exam mark is already the
\* mark the call computes
C14_Witness ==
    /\ last.op = "calculate_exam_mark" /\ last.status = "ok"
    /\ last.existed /\ ~last.pre.SyncSource
    /\ last.pre.Assignments = ScenarioRecord.Assignments
    /\ last.pre.ExamMark = <<110, 1>> /\ last.value = <<110, 1>>
    /\ HasTarget /\ Target = last.pre

\* C15: every successful mutating operation saves the Year Store before it
\* returns, so between operations the saved document equals the in-memory store.
C15_SavedEqualsStore == disk = store

\* the entry a table row names is an entry of the selected semester
Names(row) ==
    /\ Has(World, selected, table[row][1])
    /\ Find(store[selected][table[row][1]].Assignments, table[row][3]) > 0

\* C16: when several rows are deleted at once, every selected row that names an
\* entry has its entry removed whatever became of the other rows, the rows that
\* name no entry are the ones that fail, every entry no selected row names stays,
\* and the outcome is saved.  (A batch is what the handler runs on a semester of
\* the year; on a semester the year lacks no row is tried at all.)
C16_BatchIndependent ==
    [][(last'.op = "delete_entries" /\ last'.status # "crashed")
        => /\ \A row \in last'.rows :
                IF Names(row)
                THEN /\ row \notin last'.failed
                     /\ Find(store'[selected][table[row][1]].Assignments,
                             table[row][3]) = 0
                ELSE row \in last'.failed
           /\ \A c \in (IF selected \in DOMAIN store THEN DOMAIN store[selected] ELSE {}) :
                \A i \in 1..Len(store[selected][c].Assignments) :
                    LET e == store[selected][c].Assignments[i]
                    IN (\A row \in last'.rows :
                            ~(table[row][1] = c /\ table[row][3] = e.SubjectAssessment))
                       => Find(store'[selected][c].Assignments, e.SubjectAssessment) > 0
           /\ disk' = store']_vars

\* a batch in which a row was deleted and a row taken after it failed: the
\* deletion stands in the store and in the saved document
C16_Witness ==
    /\ last.op = "delete_entries" /\ last.status = "partial"
    /\ \E f \in last.failed : \E g \in last.rows \ last.failed : g > f
    /\ disk = store

\* C17: a year without a file, the dialog confirmed with the set S of semesters:
\* the new store holds exactly the semesters of S (all three when S is empty),
\* each an empty subject map, and is saved; the dialog cancelled: store, saved
\* document and semester objects stay as they were.  A year whose file exists:
\* the file is left as it was and every record of it is in the store.
C17_SelectYear ==
    [][last'.op = "select_year"
        => IF last'.file_existed
           THEN /\ disk' = FileOf(shown').doc
                /\ \A s \in DOMAIN disk' : \A c \in DOMAIN disk'[s] :
                       /\ s \in DOMAIN store' /\ c \in DOMAIN store'[s]
                       /\ store'[s][c] = disk'[s][c]
           ELSE IF last'.accepted
                THEN LET S == IF last'.chosen = {} THEN Semesters ELSE last'.chosen
                     IN /\ DOMAIN store' = S
                        /\ \A s \in S : store'[s] = Empty
                        /\ disk' = store'
                        /\ year' = shown'
                        /\ written'
                        /\ files'[year] = [exists |-> written, doc |-> disk]
                ELSE UNCHANGED <<store, alias, disk, written, semesters, year, files>>]_vars

\* a new year created with "Autumn" alone
C17_Witness ==
    /\ last.op = "select_year" /\ last.status = "created"
    /\ ~last.file_existed /\ last.accepted /\ last.chosen = {"Autumn"}
    /\ DOMAIN store = {"Autumn"} /\ store["Autumn"] = Empty
    /\ semesters = {"Autumn"}
    /\ disk = store /\ year = "Y1" /\ files["Y0"].exists

\* no two entries of the list bear the same assessment name
Unique(assignments) ==
    \A i, j \in 1..Len(assignments) :
        i # j => assignments[i].SubjectAssessment # assignments[j].SubjectAssessment

\* C18: whatever add entry and delete entry operations were performed, no subject
\* has two entries of the same assessment name.
C18_UniqueNames ==
    \A s \in DOMAIN store : \A c \in DOMAIN store[s] : Unique(store[s][c].Assignments)

\* an entry added under the name of the third entry of the subject: the list
\* still has three entries, the name once
C18_Witness ==
    /\ last.op = "add_entry" /\ last.status = "ok"
    /\ last.existed
    /\ Find(last.pre.Assignments, last.assessment) = 3
    /\ Len(last.pre.Assignments) = 3
    /\ HasTarget /\ Len(Target.Assignments) = 3
    /\ Cardinality({i \in 1..3 : Target.Assignments[i].SubjectAssessment
                                    = last.assessment}) = 1

\* C19: with every mark weight of the subject in 0..100, the mark weights of a
\* subject's entries and its exam weight add up to 100 at most.
C19_WeightsWithin100 ==
    \A s \in DOMAIN store : \A c \in DOMAIN store[s] :
        LET rec == store[s][c]
        IN (\A i \in 1..Len(rec.Assignments) :
                /\ Le(Zero, rec.Assignments[i].MarkWeight)
                /\ Le(rec.Assignments[i].MarkWeight, Hundred))
           => Le(Add(SumWeights(rec.Assignments), rec.ExamWeight), Hundred)

\* C20: add entry, delete entry, calculate exam mark and set total mark issued
\* while "Autumn" or "Spring" is selected leave every record of "Annual" as it was
\* and put no record into the selected semester under the code of a sync source of
\* "Annual" that the semester did not hold.
C20_SyncedReadOnly ==
    [][(/\ last'.op \in {"add_entry", "delete_entry", "calculate_exam_mark",
                         "manage_total_mark"}
        /\ selected \in {"Autumn", "Spring"}
        /\ "Annual" \in DOMAIN store)
        => /\ "Annual" \in DOMAIN store'
           /\ store'["Annual"] = store["Annual"]
           /\ \A c \in DOMAIN store["Annual"] :
                (store["Annual"][c].SyncSource /\ ~Has(World, selected, c))
                    => ~(selected \in DOMAIN store' /\ c \in DOMAIN store'[selected])]_vars

====
